---- MODULE Spec2Model ----
(***************************************************************************)
(* Text layout of nightmaregl: Text::set_text / Text::position and the     *)
(* word-wrapping line breaker (position_text, layout_normal_wrap, no_wrap) *)
(* of src/src/text.rs and of its rewrite src/nightmare/src/text.rs.        *)
(*                                                                         *)
(* A layout pass is modelled step by step: SetText starts it, one action   *)
(* per loop iteration of position_text follows, Compose is the rest of     *)
(* Text::layout (queue, cache, sprites).  While a pass runs (pc = "layout")*)
(* no other method of Text can be called: the code is single threaded.     *)
(*                                                                         *)
(* Pixel quantities are whole numbers.  A quantity normalised to the       *)
(* texture size is the pair [n, d] standing for n / d.                     *)
(***************************************************************************)
EXTENDS Integers, Sequences, FiniteSets, TLC

VARIABLES load, crate, wrap, font_size, pc, sub, text, words, wi, attempt, ci, local,
          glyphs, caret, previous_glyph_id, sprites, position, atlas, queue,
          result, overflowed, moves, prior, before,
          inner, next, held, panicked,
          made, cols, stride_w, stride_h, current_frame, max_frame, repeat,
          origin, elapsed, calls, stalled,
          viewport, relative,
          from_pixels, to_pixels, row_width, region, wrote, pixels_out,
          current_vao_id, current_vbo_id, current_shader_program_id,
          vaos, vbos, programs, gl_vertex_array, gl_array_buffer, gl_program,
          last_call,
          framebuffers, attachments, gl_draw_framebuffer, gl_read_framebuffer,
          gl_texture_2d, fb_call,
          renderer, vp_locations, uniform_written, renderer_call,
          renderer_panicked

\* the fields of a Text (and what is kept of its past)
text_vars == <<load, crate, wrap, font_size, pc, sub, text, words, wi, attempt, ci,
               local, glyphs, caret, previous_glyph_id, sprites, position, atlas,
               queue, result, overflowed, moves, prior, before>>

\* the fields of an Entries (and what its caller holds)
entries_vars == <<inner, next, held, panicked>>

\* the fields of an Animation (and how often next() ran)
animation_vars == <<made, cols, stride_w, stride_h, current_frame, max_frame,
                    repeat, origin, elapsed, calls, stalled>>

\* a Viewport and the RelativeViewport made of it
viewport_vars == <<viewport, relative>>

\* two Pixels, the Region read from the first, and what the last call did
pixels_vars == <<from_pixels, to_pixels, row_width, region, wrote, pixels_out>>

\* the fields of a Context, the Vao, Vbo and ShaderProgram objects that are
\* alive, what is bound in GL, and the last call of the Context
context_vars == <<current_vao_id, current_vbo_id, current_shader_program_id,
                  vaos, vbos, programs, gl_vertex_array, gl_array_buffer,
                  gl_program, last_call>>

\* the Framebuffer objects that are alive (id and target), the texture each
\* GL framebuffer has as colour attachment 0, what is bound in GL, and the
\* last call of a Framebuffer
framebuffer_vars == <<framebuffers, attachments, gl_draw_framebuffer,
                      gl_read_framebuffer, gl_texture_2d, fb_call>>

\* the fields of a SimpleRenderer, the location of the uniform `vp` in each
\* shader program, the uniform GL wrote last, the last call of the renderer
\* and whether it panicked
renderer_vars == <<renderer, vp_locations, uniform_written, renderer_call,
                   renderer_panicked>>

\* the fields of the objects other than Text, Entries and Animation
more_vars == <<viewport_vars, pixels_vars, context_vars, framebuffer_vars,
               renderer_vars>>

vars == <<load, crate, wrap, font_size, pc, sub, text, words, wi, attempt, ci, local,
          glyphs, caret, previous_glyph_id, sprites, position, atlas, queue,
          result, overflowed, moves, prior, before,
          inner, next, held, panicked,
          made, cols, stride_w, stride_h, current_frame, max_frame, repeat,
          origin, elapsed, calls, stalled,
          viewport, relative,
          from_pixels, to_pixels, row_width, region, wrote, pixels_out,
          current_vao_id, current_vbo_id, current_shader_program_id,
          vaos, vbos, programs, gl_vertex_array, gl_array_buffer, gl_program,
          last_call,
          framebuffers, attachments, gl_draw_framebuffer, gl_read_framebuffer,
          gl_texture_2d, fb_call,
          renderer, vp_locations, uniform_written, renderer_call,
          renderer_panicked>>

-----------------------------------------------------------------------------
(* Bounds of the model *)

\* longest text handed to set_text when one layout pass is followed (SpecPass)
MaxLen == 3

\* longest text handed to set_text when it is called again and again (Spec)
MaxRepeatLen == 2

\* widest wrap width, WordWrap::Normal(MaxWidth); half of it is used as well
MaxWidth == 16

\* most calls of Text::position between two calls of set_text
MaxMoves == 1

\* set_text is called as long as no more glyphs than this are left in the
\* queue of the cache (the queue is left as it is when caching fails)
MaxQueue == 2

\* most slots an Entries grows to
MaxEntries == 3

\* the names GL has for the objects of a kind: 1..MaxNames
MaxNames == 2

\* the shader programs a SimpleRenderer is given, and the locations a
\* program has for its uniforms: 0..MaxLocation
MaxPrograms == 3
MaxLocation == 1

\* widest and highest pixel buffer
MaxRowWidth == 3
MaxHeight == 2

\* most rows and columns of frames on a sprite sheet
MaxRows == 2
MaxCols == 3

\* most frames an Animation is stepped (calls of next())
MaxCalls == 7

-----------------------------------------------------------------------------
(* The inputs *)

Chars == {"a", "b", " ", "\n", "\r"}

\* "ab ab": two words, the second of which has to wrap (the hello world
\* scenario with two letters a word)
Scenarios == {<<"a", "b", " ", "a", "b">>}

Texts == UNION {[1..n -> Chars] : n \in 0..MaxLen} \cup Scenarios

ShortTexts == UNION {[1..n -> Chars] : n \in 0..MaxRepeatLen}

\* the texts the cache is tried with: one glyph, the same glyph twice, two
\* glyphs, a glyph after a space
CacheTexts == {<<>>, <<"a">>, <<"b">>, <<"a", "a">>, <<"a", "b">>, <<" ", "a">>}

None == "None"

\* which of the two crates of the repository is running
Crates == {"nightmaregl", "nightmare"}

NoWrap == [kind |-> "NoWrap", width |-> 0]

Normal(w) == [kind |-> "Normal", width |-> w]

WordWrap == {NoWrap, Normal(MaxWidth \div 2), Normal(MaxWidth)}

Positions == {[x |-> 0, y |-> 0], [x |-> 5, y |-> 3]}

\* what the path of Font::from_path leads to
Files == {"unreadable", "not a font", "font", "fractional font"}

\* The sizes a font is loaded with, in units of the size at which the metrics
\* are the ones below: Scale::uniform(font_size) scales all of them alike.
FontSizes == {1, 50, 100}

\* Font::from_path(path, font_size): the scaled metrics rusttype reports for
\* the font of the file.  The advance width of a glyph is advance_width pixels
\* and advance_tenths tenths of a pixel (none in the font "font").
FontOf(file, size) ==
    [advance_height |-> 10 * size,
     advance_width  |-> [c \in {"a", "b", " "} |->
                            IF c = " " THEN 4 * size ELSE 8 * size],
     advance_tenths |-> IF file = "fractional font" THEN 4 * size ELSE 0,
     bounding_box   |-> [c \in {"a", "b"} |->
                            IF c = "a"
                            THEN [minx |-> 1 * size, maxx |-> 7 * size,
                                  miny |-> -6 * size, maxy |-> 0]
                            ELSE [minx |-> 1 * size, maxx |-> 8 * size,
                                  miny |-> -8 * size, maxy |-> 1 * size]]]

Fonts == [file \in Files \cup {None}, size \in FontSizes \cup {0} |-> FontOf(file, size)]

\* The font the layout runs with
Font == Fonts[load.file, font_size]

\* Font::pair_kerning
PairKerning(prev, c) ==
    CASE prev = "a" /\ c = "b" -> -1 * font_size
      [] prev = "b" /\ c = "a" -> 1 * font_size
      [] OTHER -> 0

\* FontCache::new(Size::new(512.0, 512.0))
CacheSize == 512

-----------------------------------------------------------------------------
(* unicode word boundaries of the characters above *)

Class(c) ==
    CASE c \in {"a", "b"} -> "ALetter"
      [] c = " "  -> "WSegSpace"
      [] c = "\n" -> "LF"
      [] c = "\r" -> "CR"

\* no boundary between the two: WB3 (CR x LF), WB3d (spaces), WB5 (letters)
Joined(c, d) ==
    \/ Class(c) = "CR" /\ Class(d) = "LF"
    \/ Class(c) = "WSegSpace" /\ Class(d) = "WSegSpace"
    \/ Class(c) = "ALetter" /\ Class(d) = "ALetter"

RECURSIVE SplitFrom(_, _, _)
SplitFrom(t, i, acc) ==
    IF i > Len(t) THEN acc
    ELSE IF i > 1 /\ Joined(t[i - 1], t[i])
         THEN SplitFrom(t, i + 1,
                  [acc EXCEPT ![Len(acc)] = Append(acc[Len(acc)], t[i])])
         ELSE SplitFrom(t, i + 1, Append(acc, <<t[i]>>))

\* text.split_word_bounds().collect::<Vec<_>>()
SplitWordBounds(t) == SplitFrom(t, 1, <<>>)

-----------------------------------------------------------------------------
(* position_text *)

IsControl(c) == c \in {"\n", "\r"}

HasBoundingBox(c) == c \in DOMAIN Font.bounding_box

\* Kerned without the kerning
KernedNot(prev, c, x) == x

\* the caret after the kerning against the previous glyph, if there is one
Kerned(prev, c, x) ==
    IF prev # None THEN x + PairKerning(prev, c) ELSE x

\* base_glyph.scaled(scale).positioned(caret): the pen is at x pixels and sub
\* tenths of a pixel; word and idx record where the character stands in the
\* text (bookkeeping, not a field of the program)
Positioned(c, x, y, w, i) ==
    [id |-> c, x |-> x, y |-> y, sub |-> sub, word |-> w, idx |-> i]

\* glyph.pixel_bounding_box(): an Option, <<>> for None and <<bb>> for Some(bb)
PixelBoundingBox(g) ==
    IF HasBoundingBox(g.id)
    THEN <<[minx |-> g.x + Font.bounding_box[g.id].minx,
            maxx |-> g.x + Font.bounding_box[g.id].maxx,
            miny |-> g.y + Font.bounding_box[g.id].miny,
            maxy |-> g.y + Font.bounding_box[g.id].maxy]>>
    ELSE <<>>

\* Overflow looking at the left edge of the bounding box
OverflowLeftEdge(wr, g) ==
    /\ PixelBoundingBox(g) # <<>>
    /\ wr.kind = "Normal"
    /\ PixelBoundingBox(g)[1].minx > wr.width

\* Overflow looking at the advance width instead of the bounding box
OverflowByAdvance(wr, g) ==
    /\ wr.kind = "Normal"
    /\ g.x + Font.advance_width[g.id] > wr.width

\* the glyph does not fit:
\* if let Some(bb) = .. { Normal(max_width) if bb.max.x > max_width as i32 }
Overflow(wr, g) ==
    /\ PixelBoundingBox(g) # <<>>
    /\ wr.kind = "Normal"
    /\ PixelBoundingBox(g)[1].maxx > wr.width

\* NextLine with the sign of the line advance turned
NextLineUp(car) == [x |-> 0, y |-> car.y - Font.advance_height]

\* Point { x: 0.0, y: self.caret.y + self.font.advance_height }
NextLine(car) == [x |-> 0, y |-> car.y + Font.advance_height]

\* glyphs.push(glyph)
Push(gs, g) == Append(gs, g)

\* Aborted keeping the glyphs positioned before the one that did not fit
AbortedKeepsPrefix(out, loc) == out \o loc

\* what is left of the glyphs positioned so far when a segment is aborted:
\* position_text returns None and its own vector is dropped
Aborted(out, loc) == out

RECURSIVE SumLen(_, _)
SumLen(ws, k) == IF k = 0 THEN 0 ELSE Len(ws[k]) + SumLen(ws, k - 1)

InWord == pc = "layout" /\ wi <= Len(words) /\ ci <= Len(words[wi])

CurChar == words[wi][ci]

CurGlyph ==
    Positioned(CurChar, Kerned(previous_glyph_id, CurChar, caret.x), caret.y,
               wi, SumLen(words, wi - 1) + ci)

-----------------------------------------------------------------------------
(* the glyph cache and the sprites *)

Range(s) == {s[i] : i \in DOMAIN s}

Px(n) == [n |-> n, d |-> 1]

Norm(n) == [n |-> n, d |-> CacheSize]

\* The texture of the cache is divided in rows: atlas is the sequence of its
\* rows, the least recently used one first.  A row is [top, height, width,
\* glyphs], glyphs being the keys of the glyphs standing in it from the left.

\* what the cache knows a glyph by: its id and the sub-pixel offset of its
\* position (position_tolerance 0.1: tenths of a pixel)
Key(g) == [id |-> g.id, sub |-> g.sub]

\* width and height a glyph takes in the texture: its bounding box and a
\* padding of one pixel on each side (Cache::builder() pads the glyphs)
PadW(key) == Font.bounding_box[key.id].maxx - Font.bounding_box[key.id].minx + 2

PadH(key) == Font.bounding_box[key.id].maxy - Font.bounding_box[key.id].miny + 2

\* the keys that are in the texture
CachedKeys(rows) == UNION {Range(rows[k].glyphs) : k \in DOMAIN rows}

\* the glyph ids that are in the texture
Cached(rows) == {key.id : key \in CachedKeys(rows)}

RowOf(rows, key) == CHOOSE k \in DOMAIN rows : key \in Range(rows[k].glyphs)

\* how many rectangles of the texture hold the glyph id
Slots(rows, id) ==
    LET n[k \in 0..Len(rows)] ==
            IF k = 0 THEN 0
            ELSE n[k - 1] + Len(SelectSeq(rows[k].glyphs, LAMBDA key : key.id = id))
    IN n[Len(rows)]

RECURSIVE QueueGlyphs(_, _, _)
\* cache.queue_glyph(0, glyph) for each glyph of the layout: a glyph without
\* bounding box is not queued, a glyph that is queued already is queued again
QueueGlyphs(q, gs, i) ==
    IF i > Len(gs) THEN q
    ELSE IF HasBoundingBox(gs[i].id)
         THEN QueueGlyphs(Append(q, Key(gs[i])), gs, i + 1)
         ELSE QueueGlyphs(q, gs, i + 1)

\* rows.get_refresh(row) for every row of tops: the most recently used ones
Refresh(rows, tops) ==
    SelectSeq(rows, LAMBDA r : r.top \notin tops)
        \o SelectSeq(rows, LAMBDA r : r.top \in tops)

RECURSIVE TallestFirst(_)
\* uncached_glyphs.sort_unstable_by_key(|g| -height)
TallestFirst(q) ==
    IF q = <<>> THEN <<>>
    ELSE LET h == CHOOSE x \in {PadH(q[i]) : i \in DOMAIN q} :
                      \A j \in DOMAIN q : PadH(q[j]) <= x
         IN SelectSeq(q, LAMBDA id : PadH(id) = h)
                \o TallestFirst(SelectSeq(q, LAMBDA id : PadH(id) # h))

\* the free space of the texture that holds line y: [start, end)
GapAround(rows, y) ==
    LET below == {rows[k].top + rows[k].height : k \in DOMAIN rows} \cup {0}
        above == {rows[k].top : k \in DOMAIN rows} \cup {CacheSize}
    IN [start |-> CHOOSE s \in below : s <= y /\ \A t \in below : t <= y => t <= s,
        end   |-> CHOOSE e \in above : e > y /\ \A t \in above : t > y => e <= t]

\* the lines at which a free space of at least h lines starts
Gaps(rows, h) ==
    {s \in {rows[k].top + rows[k].height : k \in DOMAIN rows} \cup {0} :
        /\ s < CacheSize
        /\ \A k \in DOMAIN rows : ~(rows[k].top <= s /\ s < rows[k].top + rows[k].height)
        /\ GapAround(rows, s).end - s >= h}

RECURSIVE Evict(_, _, _, _)
\* "Remove old rows until room is available": the least recently used row
\* goes, with its glyphs, unless a glyph of the queue stands in it
Evict(rows, in_use, h, from_empty) ==
    IF rows = <<>> THEN [rows |-> rows, out |-> "Panic", gap |-> 0]
    ELSE IF Head(rows).top \notin in_use
    THEN LET freed == GapAround(Tail(rows), Head(rows).top)
         IN IF freed.end - freed.start >= h
            THEN [rows |-> Tail(rows), out |-> "Ok", gap |-> freed.start]
            ELSE Evict(Tail(rows), in_use, h, from_empty)
    ELSE IF from_empty
         THEN [rows |-> rows, out |-> "NoRoomForWholeQueue", gap |-> 0]
         ELSE [rows |-> rows, out |-> "Reorder", gap |-> 0]

\* the space for a new row of height h: a free one, or one freed by eviction
MakeRoom(rows, in_use, h, from_empty) ==
    IF Gaps(rows, h) # {}
    THEN [rows |-> rows, out |-> "Ok",
          gap |-> CHOOSE s \in Gaps(rows, h) : \A t \in Gaps(rows, h) : s <= t]
    ELSE Evict(rows, in_use, h, from_empty)

\* the glyph is added to row k, which becomes the most recently used one
Put(rows, k, id) ==
    LET row == [rows[k] EXCEPT !.glyphs = Append(@, id), !.width = @ + PadW(id)]
    IN SelectSeq(rows, LAMBDA r : r.top # row.top) \o <<row>>

\* PerGlyph caching a glyph whether it is in the texture or not
RECURSIVE PerGlyphAgain(_, _, _, _)
PerGlyphAgain(rows, in_use, todo, from_empty) ==
    IF todo = <<>> THEN [rows |-> rows, out |-> "Ok"]
    ELSE LET id == Head(todo)
             fit == {k \in DOMAIN rows : /\ rows[k].height >= PadH(id)
                                         /\ CacheSize - rows[k].width >= PadW(id)}
             room == MakeRoom(rows, in_use, PadH(id), from_empty)
             row == [top |-> room.gap, height |-> PadH(id), width |-> 0, glyphs |-> <<>>]
         IN IF PadW(id) >= CacheSize \/ PadH(id) >= CacheSize
            THEN [rows |-> rows, out |-> "GlyphTooLarge"]
            ELSE IF fit # {}
            THEN LET k == CHOOSE x \in fit : \A y \in fit : y <= x
                 IN PerGlyphAgain(Put(rows, k, id), in_use \cup {rows[k].top},
                                  Tail(todo), from_empty)
            ELSE IF room.out # "Ok"
            THEN [rows |-> room.rows, out |-> room.out]
            ELSE PerGlyphAgain(Put(Append(room.rows, row), Len(room.rows) + 1, id),
                               in_use \cup {room.gap}, Tail(todo), from_empty)

RECURSIVE PerGlyph(_, _, _, _)
\* 'per_glyph: a place in the texture for each glyph, the tallest first: in
\* the most recently used row that has room for it, else in a new row
PerGlyph(rows, in_use, todo, from_empty) ==
    IF todo = <<>> THEN [rows |-> rows, out |-> "Ok"]
    ELSE LET id == Head(todo)
             fit == {k \in DOMAIN rows : /\ rows[k].height >= PadH(id)
                                         /\ CacheSize - rows[k].width >= PadW(id)}
             room == MakeRoom(rows, in_use, PadH(id), from_empty)
             row == [top |-> room.gap, height |-> PadH(id), width |-> 0, glyphs |-> <<>>]
         IN IF id \in CachedKeys(rows)
            THEN PerGlyph(rows, in_use, Tail(todo), from_empty)
            ELSE IF PadW(id) >= CacheSize \/ PadH(id) >= CacheSize
            THEN [rows |-> rows, out |-> "GlyphTooLarge"]
            ELSE IF fit # {}
            THEN LET k == CHOOSE x \in fit : \A y \in fit : y <= x
                 IN PerGlyph(Put(rows, k, id), in_use \cup {rows[k].top},
                             Tail(todo), from_empty)
            ELSE IF room.out # "Ok"
            THEN [rows |-> room.rows, out |-> room.out]
            ELSE PerGlyph(Put(Append(room.rows, row), Len(room.rows) + 1, id),
                          in_use \cup {room.gap}, Tail(todo), from_empty)

\* one run of cache_queued over the queue q
Attempt(rows, q, from_empty) ==
    LET in_use == {rows[RowOf(rows, q[i])].top :
                      i \in {j \in DOMAIN q : q[j] \in CachedKeys(rows)}}
        uncached == SelectSeq(q, LAMBDA id : id \notin CachedKeys(rows))
    IN PerGlyph(Refresh(rows, in_use), in_use, TallestFirst(uncached), from_empty)

\* cache.cache_queued(..): when the rows left are all in use the cache is
\* cleared and the queue is cached again, from an empty texture
CacheQueued(rows, q) ==
    LET first == Attempt(rows, q, CachedKeys(rows) = {})
    IN IF first.out = "Reorder" THEN Attempt(<<>>, q, TRUE) ELSE first

\* where in row r the glyph starts
OffsetIn(r, id) ==
    LET k == CHOOSE i \in DOMAIN r.glyphs :
                 r.glyphs[i] = id /\ \A j \in 1..(i - 1) : r.glyphs[j] # id
        x[i \in 0..Len(r.glyphs)] == IF i = 0 THEN 0 ELSE x[i - 1] + PadW(r.glyphs[i])
    IN x[k - 1]

\* rect_for(0, glyph).ok().flatten(): the texture rectangle (normalised, the
\* padding left out) and the screen rectangle (pixels) of a cached glyph, <<>>
\* for a glyph that has no bounding box or is not in the texture
RectFor(atl, g) ==
    IF ~HasBoundingBox(g.id) \/ Key(g) \notin CachedKeys(atl) THEN <<>>
    ELSE LET bb == Font.bounding_box[g.id]
             r == atl[RowOf(atl, Key(g))]
         IN <<[uv   |-> [minx |-> Norm(OffsetIn(r, Key(g)) + 1),
                         miny |-> Norm(r.top + 1),
                         width  |-> Norm(bb.maxx - bb.minx),
                         height |-> Norm(bb.maxy - bb.miny)],
               vert |-> PixelBoundingBox(g)[1]]>>

\* Norm(n) * scale, Norm(n) / scale
Times(q, s) == IF q.d = s THEN Px(q.n) ELSE [n |-> q.n * s, d |-> q.d]

\* q / s: a pixel quantity normalised to s
Over(q, s) == IF q.d = 1 THEN [n |-> q.n, d |-> s] ELSE [n |-> q.n, d |-> q.d * s]

\* Quad translated to the top left corner of the screen rectangle
QuadAtScreenOrigin(cr, r, pos) ==
    [origin    |-> <<r.uv.minx, r.uv.miny>>,
     rect_size |-> <<r.uv.width, r.uv.height>>,
     size      |-> <<r.uv.width, r.uv.height>>,
     translation |-> [x |-> r.vert.minx + pos.x, y |-> r.vert.miny + pos.y],
     scale     |-> CacheSize]

\* the (sprite, transform) pair built from a cached glyph
Quad(cr, r, pos) ==
    LET translation == [x |-> r.vert.minx + pos.x, y |-> (-r.vert.maxy) + pos.y]
    IN IF cr = "nightmaregl"
       THEN [origin    |-> <<Times(r.uv.minx, CacheSize), Times(r.uv.miny, CacheSize)>>,
             rect_size |-> <<Times(r.uv.width, CacheSize), Times(r.uv.height, CacheSize)>>,
             size      |-> <<r.uv.width, r.uv.height>>,
             translation |-> translation,
             scale     |-> CacheSize]
       ELSE [origin    |-> <<r.uv.minx, r.uv.miny>>,
             rect_size |-> <<r.uv.width, r.uv.height>>,
             size      |-> <<r.uv.width, r.uv.height>>,
             translation |-> translation,
             scale     |-> CacheSize]

\* the texture position and size handed to the renderer: nightmaregl keeps the
\* texture rectangle in pixels and divides by the texture size when the vertex
\* data is made, nightmare keeps it normalised
TexturePosition(cr, q) ==
    IF cr = "nightmaregl"
    THEN <<Over(q.origin[1], CacheSize), Over(q.origin[2], CacheSize)>>
    ELSE q.origin

TextureSize(cr, q) ==
    IF cr = "nightmaregl"
    THEN <<Over(q.rect_size[1], CacheSize), Over(q.rect_size[2], CacheSize)>>
    ELSE q.rect_size

\* the size of the quad on the screen: create_model scales by
\* sprite.size * transform.scale
ModelSize(q) == <<Times(q.size[1], q.scale), Times(q.size[2], q.scale)>>

RECURSIVE Quads(_, _, _, _, _)
Quads(cr, atl, gs, pos, i) ==
    IF i > Len(gs) THEN <<>>
    ELSE IF RectFor(atl, gs[i]) = <<>>
         THEN Quads(cr, atl, gs, pos, i + 1)
         ELSE <<Quad(cr, RectFor(atl, gs[i])[1], pos)>> \o Quads(cr, atl, gs, pos, i + 1)

\* Transform::translate_mut assigns; Similarity2::append_translation_mut adds
Translated(cr, translation, p) ==
    IF cr = "nightmaregl" THEN p
    ELSE [x |-> translation.x + p.x, y |-> translation.y + p.y]

\* ResetCaret leaving the caret where the last pass left it
ResetCaretNot(car) == car

\* what set_text resets before the layout
ResetCaret(car) == [x |-> 0, y |-> 0]

NoPrior == [same |-> FALSE, caret |-> [x |-> 0, y |-> 0], sprites |-> <<>>]

\* what the caller of set_text saw before the call
NoBefore == [caret |-> [x |-> 0, y |-> 0], sprites |-> <<>>]

-----------------------------------------------------------------------------
(* The state machine *)

\* Entries::new, Entries::with_capacity
EntriesNew ==
    /\ inner = <<>>
    /\ next = <<>>
    /\ held = {}
    /\ panicked = FALSE

\* no Animation yet: Animation::from_sprite is still to be called
NoAnimation ==
    /\ made = FALSE
    /\ cols = 0
    /\ stride_w = 0
    /\ stride_h = 0
    /\ current_frame = 0
    /\ max_frame = 0
    /\ repeat = FALSE
    /\ origin = [x |-> 0, y |-> 0]
    /\ elapsed = 0
    /\ calls = 0
    /\ stalled = FALSE

\* no Viewport yet
NoViewport ==
    /\ viewport = <<>>
    /\ relative = <<>>

\* no Pixels yet
NoPixels ==
    /\ from_pixels = <<>>
    /\ to_pixels = <<>>
    /\ row_width = 0
    /\ region = <<>>
    /\ wrote = <<>>
    /\ pixels_out = "none"

\* ContextBuilder::from_builder: a new GL context with nothing bound, and
\* the ids of the Context zero
NewContext ==
    /\ current_vao_id = 0
    /\ current_vbo_id = 0
    /\ current_shader_program_id = 0
    /\ vaos = {}
    /\ vbos = {}
    /\ programs = {}
    /\ gl_vertex_array = 0
    /\ gl_array_buffer = 0
    /\ gl_program = 0
    /\ last_call = <<>>

\* no Framebuffer is made yet: the default framebuffer is bound
NoFramebuffer ==
    /\ framebuffers = <<>>
    /\ attachments = [id \in 1..MaxNames |-> 0]
    /\ gl_draw_framebuffer = 0
    /\ gl_read_framebuffer = 0
    /\ gl_texture_2d = 0
    /\ fb_call = <<>>

\* no SimpleRenderer is made yet
NoRenderer ==
    /\ renderer = <<>>
    /\ vp_locations = <<>>
    /\ uniform_written = <<>>
    /\ renderer_call = <<>>
    /\ renderer_panicked = FALSE

\* none of the other objects is made yet
NoMore == NoViewport /\ NoPixels /\ NewContext /\ NoFramebuffer /\ NoRenderer

Init ==
    /\ crate \in Crates
    /\ wrap \in WordWrap
    /\ pc = "idle"
    /\ text = <<>>
    /\ words = <<>>
    /\ wi = 1
    /\ attempt = 1
    /\ ci = 1
    /\ local = <<>>
    /\ glyphs = <<>>
    /\ caret = [x |-> 0, y |-> 0]
    /\ previous_glyph_id = None
    /\ sprites = <<>>
    /\ position = [x |-> 0, y |-> 0]
    /\ atlas = <<>>
    /\ overflowed = {}
    /\ moves = 0
    /\ prior = NoPrior
    /\ sub = 0
    /\ font_size = 1
    /\ queue = <<>>
    /\ result = None
    /\ before = NoBefore
    /\ load = [file |-> "font", reads |-> 1]
    /\ EntriesNew
    /\ NoAnimation
    /\ NoMore

\* no Text yet: Text::from_path is still to be called
New ==
    /\ crate \in Crates
    /\ wrap \in WordWrap
    /\ pc = "new"
    /\ text = <<>>
    /\ words = <<>>
    /\ wi = 1
    /\ attempt = 1
    /\ ci = 1
    /\ local = <<>>
    /\ glyphs = <<>>
    /\ caret = [x |-> 0, y |-> 0]
    /\ previous_glyph_id = None
    /\ sprites = <<>>
    /\ position = [x |-> 0, y |-> 0]
    /\ atlas = <<>>
    /\ overflowed = {}
    /\ moves = 0
    /\ prior = NoPrior
    /\ sub = 0
    /\ font_size = 0
    /\ queue = <<>>
    /\ result = None
    /\ before = NoBefore
    /\ load = [file |-> None, reads |-> 0]
    /\ EntriesNew
    /\ NoAnimation
    /\ NoMore

\* FromPath taking whatever bytes it read for a font
FromPathUnchecked(file, size) ==
    /\ pc = "new"
    /\ load' = [file |-> file, reads |-> load.reads + 1]
    /\ result' = IF file = "unreadable" THEN "Io" ELSE "Ok"
    /\ pc' = IF file = "unreadable" THEN "failed" ELSE "idle"
    /\ font_size' = IF file = "unreadable" THEN font_size ELSE size
    /\ UNCHANGED <<crate, wrap, sub, text, words, wi, attempt, ci, local, glyphs,
                   caret, previous_glyph_id, sprites, position, atlas, queue,
                   overflowed, moves, prior, before,
                   entries_vars, animation_vars, more_vars>>

\* Text::from_path, Font::from_path: read_file(path)? returns the Io error,
\* try_from_vec that gives None returns FailedToLoadFont, and only a font
\* goes on to Text::from_font
FromPath(file, size) ==
    /\ pc = "new"
    /\ load' = [file |-> file, reads |-> load.reads + 1]
    /\ result' = CASE file = "unreadable" -> "Io"
                   [] file = "not a font" -> "FailedToLoadFont"
                   [] OTHER -> "Ok"
    /\ pc' = IF file \in {"unreadable", "not a font"} THEN "failed" ELSE "idle"
    /\ font_size' = IF file \in {"unreadable", "not a font"} THEN font_size ELSE size
    /\ UNCHANGED <<crate, wrap, sub, text, words, wi, attempt, ci, local, glyphs,
                   caret, previous_glyph_id, sprites, position, atlas, queue,
                   overflowed, moves, prior, before,
                   entries_vars, animation_vars, more_vars>>

\* Text::set_text up to the first segment of the layout
SetText(t) ==
    /\ pc = "idle"
    /\ prior' = IF t = text /\ moves = 0
                THEN [same |-> TRUE, caret |-> caret, sprites |-> sprites]
                ELSE NoPrior
    /\ caret' = ResetCaret(caret)
    /\ sub' = 0
    /\ previous_glyph_id' = None
    /\ text' = t
    /\ words' = SplitWordBounds(t)
    /\ wi' = 1
    /\ attempt' = 1
    /\ ci' = 1
    /\ local' = <<>>
    /\ glyphs' = <<>>
    /\ overflowed' = {}
    /\ moves' = 0
    /\ pc' = "layout"
    /\ result' = None
    /\ UNCHANGED <<load, crate, wrap, font_size, sprites, position, atlas, queue,
                   entries_vars, animation_vars, more_vars>>

\* position_text: c == '\r'
CarriageReturn ==
    /\ InWord
    /\ CurChar = "\r"
    /\ ci' = ci + 1
    /\ UNCHANGED <<load, crate, wrap, sub, pc, text, words, wi, attempt, local, glyphs,
                   caret, previous_glyph_id, sprites, position, atlas,
                   overflowed, moves, prior,
                   font_size, queue, result, before,
                   entries_vars, animation_vars, more_vars>>

\* position_text: c == '\n'
Newline ==
    /\ InWord
    /\ CurChar = "\n"
    /\ caret' = NextLine(caret)
    /\ sub' = 0
    /\ ci' = ci + 1
    /\ UNCHANGED <<load, crate, wrap, pc, text, words, wi, attempt, local, glyphs,
                   previous_glyph_id, sprites, position, atlas,
                   overflowed, moves, prior,
                   font_size, queue, result, before,
                   entries_vars, animation_vars, more_vars>>

\* position_text: the glyph fits (or nothing is checked) and is pushed
PlaceGlyph ==
    /\ InWord
    /\ ~IsControl(CurChar)
    /\ ~Overflow(wrap, CurGlyph)
    /\ previous_glyph_id' = CurChar
    /\ caret' = [x |-> CurGlyph.x + Font.advance_width[CurChar]
                          + (sub + Font.advance_tenths) \div 10,
                  y |-> caret.y]
    /\ sub' = (sub + Font.advance_tenths) % 10
    /\ local' = Push(local, CurGlyph)
    /\ ci' = ci + 1
    /\ UNCHANGED <<load, crate, wrap, pc, text, words, wi, attempt, glyphs,
                   sprites, position, atlas, overflowed, moves, prior,
                   font_size, queue, result, before,
                   entries_vars, animation_vars, more_vars>>

\* position_text returns None on the first attempt: the segment is retried
Retry ==
    /\ InWord
    /\ ~IsControl(CurChar)
    /\ Overflow(wrap, CurGlyph)
    /\ attempt = 1
    /\ previous_glyph_id' = CurChar
    /\ caret' = NextLine(caret)
    /\ sub' = 0
    /\ glyphs' = Aborted(glyphs, local)
    /\ local' = <<>>
    /\ ci' = 1
    /\ attempt' = 2
    /\ overflowed' = overflowed \cup {wi}
    /\ UNCHANGED <<load, crate, wrap, pc, text, words, wi,
                   sprites, position, atlas, moves, prior,
                   font_size, queue, result, before,
                   entries_vars, animation_vars, more_vars>>

\* position_text returns None on the second attempt: new_glyphs is None
Drop ==
    /\ InWord
    /\ ~IsControl(CurChar)
    /\ Overflow(wrap, CurGlyph)
    /\ attempt = 2
    /\ previous_glyph_id' = CurChar
    /\ caret' = NextLine(caret)
    /\ sub' = 0
    /\ glyphs' = Aborted(glyphs, local)
    /\ local' = <<>>
    /\ ci' = 1
    /\ attempt' = 1
    /\ wi' = wi + 1
    /\ overflowed' = overflowed \cup {wi}
    /\ UNCHANGED <<load, crate, wrap, pc, text, words,
                   sprites, position, atlas, moves, prior,
                   font_size, queue, result, before,
                   entries_vars, animation_vars, more_vars>>

\* position_text returns Some(glyphs): glyphs.append(&mut g)
WordDone ==
    /\ pc = "layout"
    /\ wi <= Len(words)
    /\ ci > Len(words[wi])
    /\ glyphs' = glyphs \o local
    /\ local' = <<>>
    /\ ci' = 1
    /\ attempt' = 1
    /\ wi' = wi + 1
    /\ UNCHANGED <<load, crate, wrap, sub, pc, text, words, caret, previous_glyph_id,
                   sprites, position, atlas, overflowed, moves, prior,
                   font_size, queue, result, before,
                   entries_vars, animation_vars, more_vars>>

\* Text::layout after the glyphs are positioned: the glyphs are queued and
\* cached; an error of cache_queued is returned (`?`) before the sprites are
\* made, and leaves the queue as it is
Compose ==
    /\ pc = "layout"
    /\ wi > Len(words)
    /\ LET q == QueueGlyphs(queue, glyphs, 1)
           cached == CacheQueued(atlas, q)
       IN /\ atlas' = cached.rows
          /\ result' = cached.out
          /\ queue' = IF cached.out = "Ok" THEN <<>> ELSE q
          /\ sprites' = IF cached.out = "Ok"
                        THEN Quads(crate, cached.rows, glyphs, position, 1)
                        ELSE sprites
    /\ pc' = "idle"
    /\ UNCHANGED <<load, crate, wrap, sub, font_size, text, words, wi, attempt, ci, local,
                   glyphs, caret, previous_glyph_id, position, overflowed,
                   moves, prior, before,
                   entries_vars, animation_vars, more_vars>>

\* Text::position
Position(p) ==
    /\ pc = "idle"
    /\ moves < MaxMoves
    /\ position' = p
    /\ sprites' = [i \in DOMAIN sprites |->
                     [sprites[i] EXCEPT
                        !.translation = Translated(crate, sprites[i].translation, p)]]
    /\ moves' = moves + 1
    /\ UNCHANGED <<load, crate, wrap, sub, pc, text, words, wi, attempt, ci, local, glyphs,
                   caret, previous_glyph_id, atlas, overflowed, prior,
                   font_size, queue, result, before,
                   entries_vars, animation_vars, more_vars>>

Next ==
    \/ \E t \in ShortTexts : SetText(t) /\ UNCHANGED before
    \/ CarriageReturn
    \/ Newline
    \/ PlaceGlyph
    \/ Retry
    \/ Drop
    \/ WordDone
    \/ Compose
    \/ \E p \in Positions : Position(p)

\* a Text on which set_text is called any number of times
Spec == Init /\ [][Next]_vars

\* nothing has been laid out yet (or only the empty text)
Fresh == text = <<>> /\ atlas = <<>>

NextPass ==
    \/ \E t \in Texts : Fresh /\ SetText(t) /\ UNCHANGED before
    \/ CarriageReturn
    \/ Newline
    \/ PlaceGlyph
    \/ Retry
    \/ Drop
    \/ WordDone
    \/ Compose
    \/ \E p \in Positions : Position(p)

\* a new Text that lays out one text
SpecPass == Init /\ [][NextPass]_vars

NewNoWrap == New /\ wrap = NoWrap

\* what the caller saw when it called set_text
Seen == [caret |-> caret, sprites |-> sprites]

NextCache ==
    \/ \E file \in Files, size \in FontSizes : FromPath(file, size)
    \/ \E t \in CacheTexts : Len(queue) <= MaxQueue /\ SetText(t) /\ before' = Seen
    \/ PlaceGlyph
    \/ WordDone
    \/ Compose

\* a Text made from a font file of any size, without word wrap, on which
\* set_text is called again and again
SpecCache == NewNoWrap /\ [][NextCache]_vars

-----------------------------------------------------------------------------
(* Entries: a store whose slots are referred to by position *)

\* the values that are pushed
Values == {"hello", "world"}

\* Option<usize>
Some(index) == <<index>>

\* Entry::Occupied(T)
Occupied(value) == [tag |-> "Occupied", val |-> value]

\* Entry::Vacant(Option<usize>)
Vacant(n) == [tag |-> "Vacant", next |-> n]

\* a remove that takes the entry out of the vector (Vec::remove)
EntriesRemoveShifting(e, index) ==
    IF index >= Len(e.inner)
    THEN [inner |-> e.inner, next |-> Some(index), out |-> "panic"]
    ELSE IF e.inner[index + 1].tag = "Vacant"
    THEN [inner |-> e.inner, next |-> Some(index), out |-> "panic"]
    ELSE [inner |-> SubSeq(e.inner, 1, index) \o SubSeq(e.inner, index + 2, Len(e.inner)),
          next |-> e.next,
          out |-> <<e.inner[index + 1].val>>]

\* Entries::remove: the slot becomes Vacant(self.next) and the head of the
\* vacant slots; both are written before the entry is looked at, so a remove
\* of a vacant slot (or past the end: self.inner[index]) panics after them
EntriesRemove(e, index) ==
    IF index >= Len(e.inner)
    THEN [inner |-> e.inner, next |-> Some(index), out |-> "panic"]
    ELSE LET entry == e.inner[index + 1]
             swapped == [e.inner EXCEPT ![index + 1] = Vacant(e.next)]
         IN [inner |-> swapped,
             next |-> Some(index),
             out |-> IF entry.tag = "Vacant" THEN "panic" ELSE <<entry.val>>]

\* Entries::push: the first vacant slot is taken, or the vector grows
EntriesPush(e, value) ==
    IF e.next # <<>>
    THEN LET index == e.next[1]
         IN IF e.inner[index + 1].tag = "Vacant"
            THEN [inner |-> [e.inner EXCEPT ![index + 1] = Occupied(value)],
                  next |-> e.inner[index + 1].next,
                  index |-> index]
            ELSE [inner |-> e.inner, next |-> <<>>, index |-> index]
    ELSE [inner |-> Append(e.inner, Occupied(value)),
          next |-> <<>>,
          index |-> Len(e.inner)]

\* Index for Entries: entries[index]
EntriesIndex(e, index) ==
    IF index >= Len(e.inner) THEN "panic"
    ELSE IF e.inner[index + 1].tag = "Vacant" THEN "panic"
    ELSE e.inner[index + 1].val

\* the Entries as it is
Entries == [inner |-> inner, next |-> next]

\* entries.push(value); the caller keeps the index with the value
PushEntry(value) ==
    /\ ~panicked
    /\ next # <<>> \/ Len(inner) < MaxEntries
    /\ LET pushed == EntriesPush(Entries, value)
       IN /\ inner' = pushed.inner
          /\ next' = pushed.next
          /\ held' = held \cup {<<pushed.index, value>>}
    /\ UNCHANGED <<panicked, text_vars, animation_vars, more_vars>>

\* entries.remove(index), of any index; the caller forgets a removed index
RemoveEntry(index) ==
    /\ ~panicked
    /\ LET removed == EntriesRemove(Entries, index)
       IN /\ inner' = removed.inner
          /\ next' = removed.next
          /\ panicked' = (removed.out = "panic")
          /\ held' = IF removed.out = "panic" THEN held
                     ELSE {p \in held : p[1] # index}
    /\ UNCHANGED <<text_vars, animation_vars, more_vars>>

NextEntries ==
    \/ \E value \in Values : PushEntry(value)
    \/ \E index \in 0..MaxEntries : RemoveEntry(index)

\* no Text is laid out
TextIdle == Init /\ crate = "nightmare" /\ wrap = NoWrap

\* an Entries on which push and remove are called in any order, until a call
\* panics
SpecEntries == TextIdle /\ [][NextEntries]_vars

-----------------------------------------------------------------------------
(* Animation: a sprite stepped over the frames of a sprite sheet
   (src/src/animation.rs; the copy in src/nightmare/src is not a module of
   its crate: `// mod animation;`, src/nightmare/src/lib.rs) *)

\* u16 arithmetic wraps at
Wrap16 == 65536

\* from_sprite: fps: 10.0
Fps == 10

\* 1.0 / self.fps, in milliseconds
Sec == 1000 \div Fps

\* rows, cols of a sheet with frames on it
Rows == 1..MaxRows
Cols == 1..MaxCols

\* stride_w, stride_h: the distance between frames, in pixels
Strides == {16, 32}

\* dt of update, in milliseconds: half a frame and a whole frame
DeltaTimes == {50, 100}

\* the Animation as it is
Animation == [cols |-> cols, stride_w |-> stride_w, stride_h |-> stride_h,
              current_frame |-> current_frame, max_frame |-> max_frame,
              repeat |-> repeat, origin |-> origin]

\* the frame's place on the sheet
FrameOrigin(a, frame) ==
    [x |-> ((frame % a.cols) * a.stride_w) % Wrap16,
     y |-> ((frame \div a.cols) * a.stride_h) % Wrap16]

\* next() with rows and columns the other way round
AnimationNextTransposed(a) ==
    IF a.current_frame = (a.max_frame - 1) % Wrap16
    THEN IF a.repeat
         THEN [current_frame |-> 0, origin |-> [x |-> 0, y |-> 0], early |-> FALSE]
         ELSE [current_frame |-> a.current_frame, origin |-> a.origin, early |-> TRUE]
    ELSE LET frame == (a.current_frame + 1) % Wrap16
         IN [current_frame |-> frame,
             origin |-> [x |-> ((frame \div a.cols) * a.stride_w) % Wrap16,
                         y |-> ((frame % a.cols) * a.stride_h) % Wrap16],
             early |-> FALSE]

\* next() that wraps whether repeat is set or not
AnimationNextLooping(a) ==
    LET frame == IF a.current_frame = (a.max_frame - 1) % Wrap16
                 THEN 0
                 ELSE (a.current_frame + 1) % Wrap16
    IN [current_frame |-> frame, origin |-> FrameOrigin(a, frame), early |-> FALSE]

\* Animation::next: at the last frame go to frame 0 when repeat is set and
\* return before anything is written when it is not, else go one frame on;
\* then the texture rectangle's origin is set to the frame's place
AnimationNext(a) ==
    IF a.current_frame = (a.max_frame - 1) % Wrap16
    THEN IF a.repeat
         THEN [current_frame |-> 0, origin |-> FrameOrigin(a, 0), early |-> FALSE]
         ELSE [current_frame |-> a.current_frame, origin |-> a.origin, early |-> TRUE]
    ELSE LET frame == (a.current_frame + 1) % Wrap16
         IN [current_frame |-> frame, origin |-> FrameOrigin(a, frame), early |-> FALSE]

\* Animation::from_sprite (of a sprite whose texture rectangle starts at the
\* origin: Sprite::from_size, Animation::from_texture)
FromSprite(rows, c, w, h) ==
    /\ ~made
    /\ made' = TRUE
    /\ max_frame' = (rows * c) % Wrap16
    /\ cols' = c
    /\ stride_w' = w
    /\ stride_h' = h
    /\ current_frame' = 0
    /\ repeat' = FALSE
    /\ elapsed' = 0
    /\ origin' = [x |-> 0, y |-> 0]
    /\ UNCHANGED <<calls, stalled, text_vars, entries_vars, more_vars>>

\* animation.repeat = true, animation.repeat = false
SetRepeat ==
    /\ made
    /\ repeat' = ~repeat
    /\ UNCHANGED <<made, cols, stride_w, stride_h, current_frame, max_frame,
                   origin, elapsed, calls, stalled, text_vars, entries_vars,
                   more_vars>>

\* Animation::update: next() is called once when a frame's time has passed
Update(dt) ==
    /\ made
    /\ IF elapsed + dt >= Sec
       THEN /\ calls < MaxCalls
            /\ elapsed' = elapsed + dt - Sec
            /\ LET stepped == AnimationNext(Animation)
               IN /\ current_frame' = stepped.current_frame
                  /\ origin' = stepped.origin
                  /\ stalled' = (stalled \/ stepped.early)
            /\ calls' = calls + 1
       ELSE /\ elapsed' = elapsed + dt
            /\ UNCHANGED <<current_frame, origin, calls, stalled>>
    /\ UNCHANGED <<made, cols, stride_w, stride_h, max_frame, repeat,
                   text_vars, entries_vars, more_vars>>

NextAnimation ==
    \/ \E rows \in Rows, c \in Cols, w \in Strides, h \in Strides : FromSprite(rows, c, w, h)
    \/ SetRepeat
    \/ \E dt \in DeltaTimes : Update(dt)

\* an Animation made from a sprite, updated frame by frame, whose repeat
\* is set and cleared at any time
SpecAnimation == TextIdle /\ [][NextAnimation]_vars

-----------------------------------------------------------------------------
(* Viewport and RelativeViewport (src/src/viewport.rs) *)

\* Position<i32>: screen positions and paddings
Corners == {[x |-> 0, y |-> 0], [x |-> 5, y |-> 5], [x |-> 10, y |-> 10]}

\* Size<i32>: sizes of the main viewport
ViewportSizes == {[width |-> 100, height |-> 100], [width |-> 50, height |-> 50],
                  [width |-> 800, height |-> 600]}

\* projection(size): Matrix4::new_orthographic(0, width, 0, height, 0, -10000)
Projection(size) ==
    [left |-> 0, right |-> size.width, bottom |-> 0, top |-> size.height]

\* Viewport::new
ViewportNew(pos, size) ==
    [position |-> pos, size |-> size, projection |-> Projection(size)]

\* Viewport::resize
ViewportResize(vp, new_size) ==
    [vp EXCEPT !.size = new_size, !.projection = Projection(new_size)]

\* RelativeViewport::new
RelativeViewportNew(padding_bottom_left, padding_top_right, relative_to) ==
    [inner |-> ViewportNew(
                   [x |-> relative_to.position.x + padding_bottom_left.x,
                    y |-> relative_to.position.y + padding_bottom_left.y],
                   [width |-> relative_to.size.width - padding_top_right.x
                                  - padding_bottom_left.x,
                    height |-> relative_to.size.height - padding_top_right.y
                                   - padding_bottom_left.y]),
     padding_bottom_left |-> padding_bottom_left,
     padding_top_right |-> padding_top_right]

\* RelativeViewport::resize
RelativeViewportResize(rel, relative_to) ==
    LET florp == [x |-> rel.padding_top_right.x + rel.padding_bottom_left.x,
                  y |-> rel.padding_top_right.y + rel.padding_bottom_left.y]
    IN [rel EXCEPT !.inner = ViewportResize(rel.inner,
                                 [width |-> relative_to.size.width - florp.x,
                                  height |-> relative_to.size.height - florp.y])]

\* everything but the Viewport
but_viewport == <<text_vars, entries_vars, animation_vars, pixels_vars, context_vars,
                 framebuffer_vars, renderer_vars>>

\* let main_vp = Viewport::new(position, size)
NewViewport(pos, size) ==
    /\ viewport = <<>>
    /\ viewport' = <<ViewportNew(pos, size)>>
    /\ UNCHANGED <<relative, but_viewport>>

\* let sub = main_vp.relative(bottom_left, top_right)
Relative(bottom_left, top_right) ==
    /\ viewport # <<>>
    /\ relative = <<>>
    /\ relative' = <<RelativeViewportNew(bottom_left, top_right, viewport[1])>>
    /\ UNCHANGED <<viewport, but_viewport>>

\* main_vp.resize(new_size)
ResizeViewport(new_size) ==
    /\ viewport # <<>>
    /\ viewport' = <<ViewportResize(viewport[1], new_size)>>
    /\ UNCHANGED <<relative, but_viewport>>

\* sub.resize(&main_vp)
ResizeRelative ==
    /\ viewport # <<>>
    /\ relative # <<>>
    /\ relative' = <<RelativeViewportResize(relative[1], viewport[1])>>
    /\ UNCHANGED <<viewport, but_viewport>>

NextViewport ==
    \/ \E pos \in Corners, size \in ViewportSizes : NewViewport(pos, size)
    \/ \E bottom_left \in Corners, top_right \in Corners : Relative(bottom_left, top_right)
    \/ \E new_size \in ViewportSizes : ResizeViewport(new_size)
    \/ ResizeRelative

\* a viewport, a sub viewport of it, and resizes of both
SpecViewport == TextIdle /\ [][NextViewport]_vars

-----------------------------------------------------------------------------
(* Pixels: a row-major buffer of pixels, and its regions
   (src/src/pixels/mod.rs; in src/nightmare/src/pixels/mod.rs the row width
   is the buffer's own size.x) *)

\* the pixels of a buffer of n pixels, every pixel unlike every other
Numbered(n, base) == [i \in 1..n |-> base + i]

\* chunks_exact(row_width): the number of whole rows
Chunks(buf, rw) == Len(buf) \div rw

\* the pixel at row r, column c (both from 0)
PixelAt(buf, rw, r, c) == buf[r * rw + c + 1]

\* Pixels::region that starts every row at column 0
RegionFromRowStart(buf, rw, pos, size) ==
    LET taken == {i \in 0..(size.height - 1) : pos.y + i < Chunks(buf, rw)}
    IN IF taken # {} /\ pos.x + size.width > rw
       THEN [out |-> "panic", inner |-> <<>>]
       ELSE [out |-> "ok",
             inner |-> [i \in 1..Cardinality(taken) |->
                          [j \in 1..size.width |->
                              PixelAt(buf, rw, pos.y + i - 1, j - 1)]]]

\* Pixels::region: chunks_exact(row_width).skip(position.y).take(size.height)
\* .map(|c| &c[position.x..size.width + position.x]); the slice panics when
\* it ends past the row
RegionOf(buf, rw, pos, size) ==
    LET taken == {i \in 0..(size.height - 1) : pos.y + i < Chunks(buf, rw)}
    IN IF taken # {} /\ pos.x + size.width > rw
       THEN [out |-> "panic", inner |-> <<>>]
       ELSE [out |-> "ok",
             inner |-> [i \in 1..Cardinality(taken) |->
                          [j \in 1..size.width |->
                              PixelAt(buf, rw, pos.y + i - 1, pos.x + j - 1)]]]

\* write_region that starts every row at the row's first pixel
RECURSIVE WriteRowsAtRowStart(_, _, _, _, _)
WriteRowsAtRowStart(buf, rw, pos, rows, i) ==
    IF i > Len(rows) THEN [pixels |-> buf, out |-> "ok"]
    ELSE LET index == (pos.y + i - 1) * rw
         IN IF index + Len(rows[i]) > Len(buf)
            THEN [pixels |-> buf, out |-> "panic"]
            ELSE WriteRowsAtRowStart(
                     [k \in DOMAIN buf |->
                         IF k > index /\ k <= index + Len(rows[i])
                         THEN rows[i][k - index] ELSE buf[k]],
                     rw, pos, rows, i + 1)

\* Pixels::write_region: row i is copied to index..index + row.len() with
\* index = (position.y + i) * row_width + position.x; the slice panics when
\* it ends past the buffer, after the rows before it were copied
RECURSIVE WriteRows(_, _, _, _, _)
WriteRows(buf, rw, pos, rows, i) ==
    IF i > Len(rows) THEN [pixels |-> buf, out |-> "ok"]
    ELSE LET index == (pos.y + i - 1) * rw + pos.x
         IN IF index + Len(rows[i]) > Len(buf)
            THEN [pixels |-> buf, out |-> "panic"]
            ELSE WriteRows(
                     [k \in DOMAIN buf |->
                         IF k > index /\ k <= index + Len(rows[i])
                         THEN rows[i][k - index] ELSE buf[k]],
                     rw, pos, rows, i + 1)

\* everything but the Pixels
but_pixels == <<text_vars, entries_vars, animation_vars, viewport_vars, context_vars,
                 framebuffer_vars, renderer_vars>>

\* Pixels::new of two buffers of the same size, row_width pixels a row (the
\* buffers of the test write_region)
NewPixels(rw, height) ==
    /\ pixels_out = "none"
    /\ row_width' = rw
    /\ from_pixels' = Numbered(rw * height, 0)
    /\ to_pixels' = Numbered(rw * height, 100)
    /\ pixels_out' = "ok"
    /\ UNCHANGED <<region, wrote, but_pixels>>

\* let region = from_pixels.region(row_width, position, size); with
\* overflow checks the debug_assert panics where the slice would not
Region(pos, size, debug) ==
    /\ pixels_out = "ok"
    /\ wrote = <<>>
    /\ LET got == RegionOf(from_pixels, row_width, pos, size)
           asserted == debug /\ ~(row_width >= size.width + pos.x)
       IN IF asserted \/ got.out = "panic"
          THEN /\ pixels_out' = "panic"
               /\ UNCHANGED region
          ELSE /\ region' = <<[inner |-> got.inner, position |-> pos, size |-> size]>>
               /\ UNCHANGED pixels_out
    /\ UNCHANGED <<from_pixels, to_pixels, row_width, wrote, but_pixels>>

\* to_pixels.write_region(row_width, position, region)
WriteRegion(pos) ==
    /\ pixels_out = "ok"
    /\ region # <<>>
    /\ wrote = <<>>
    /\ LET written == WriteRows(to_pixels, row_width, pos, region[1].inner, 1)
       IN /\ to_pixels' = written.pixels
          /\ pixels_out' = written.out
    /\ wrote' = <<[position |-> pos, before |-> to_pixels]>>
    /\ UNCHANGED <<from_pixels, row_width, region, but_pixels>>

\* the positions and sizes on a buffer and one past it
PixelPositions == [x : 0..MaxRowWidth, y : 0..MaxHeight]
PixelSizes == [width : 0..MaxRowWidth, height : 0..MaxHeight]

NextPixels ==
    \/ \E rw \in 1..MaxRowWidth, height \in 1..MaxHeight : NewPixels(rw, height)
    \/ \E pos \in PixelPositions, size \in PixelSizes, debug \in BOOLEAN :
           Region(pos, size, debug)
    \/ \E pos \in PixelPositions : WriteRegion(pos)

\* a region is read from one buffer, any number of times, and the last one
\* read is written to the other buffer
SpecPixels == TextIdle /\ [][NextPixels]_vars

-----------------------------------------------------------------------------
(* Context: the ids of the vertex array, the buffer and the shader program
   it bound last (src/nightmare/src/context.rs), and GL: glGen* hands out a
   name that no object has, glDelete* frees the name and, when the object is
   bound, sets the binding back to zero *)

GlNames == 1..MaxNames

\* glGenVertexArrays, glGenBuffers, glCreateProgram: the names free to hand out
Unused(alive) == GlNames \ alive

\* the binding after glDelete*(id)
Deleted(bound, id) == IF bound = id THEN 0 ELSE bound

\* everything but the Context
but_context == <<text_vars, entries_vars, animation_vars, viewport_vars, pixels_vars,
                 framebuffer_vars, renderer_vars>>

\* Context::new_vao
NewVao(id) ==
    /\ id \in Unused(vaos)
    /\ vaos' = vaos \cup {id}
    /\ last_call' = <<"new_vao", id>>
    /\ UNCHANGED <<current_vao_id, current_vbo_id, current_shader_program_id,
                   vbos, programs, gl_vertex_array, gl_array_buffer, gl_program,
                   but_context>>

\* Context::bind_vao
BindVao(vao) ==
    /\ vao \in vaos
    /\ IF current_vao_id # vao
       THEN /\ gl_vertex_array' = vao
            /\ current_vao_id' = vao
       ELSE UNCHANGED <<gl_vertex_array, current_vao_id>>
    /\ last_call' = <<"bind_vao", vao>>
    /\ UNCHANGED <<current_vbo_id, current_shader_program_id, vaos, vbos, programs,
                   gl_array_buffer, gl_program, but_context>>

\* Drop for Vao: glDeleteVertexArrays
DropVao(vao) ==
    /\ vao \in vaos
    /\ vaos' = vaos \ {vao}
    /\ gl_vertex_array' = Deleted(gl_vertex_array, vao)
    /\ last_call' = <<"drop", vao>>
    /\ UNCHANGED <<current_vao_id, current_vbo_id, current_shader_program_id,
                   vbos, programs, gl_array_buffer, gl_program, but_context>>

\* Context::new_vbo: glGenBuffers, then self.bind_vbo(&vbo)
NewVbo(id) ==
    /\ id \in Unused(vbos)
    /\ vbos' = vbos \cup {id}
    /\ IF current_vbo_id # id
       THEN /\ current_vbo_id' = id
            /\ gl_array_buffer' = id
       ELSE UNCHANGED <<current_vbo_id, gl_array_buffer>>
    /\ last_call' = <<"bind_vbo", id>>
    /\ UNCHANGED <<current_vao_id, current_shader_program_id, vaos, programs,
                   gl_vertex_array, gl_program, but_context>>

\* Context::bind_vbo
BindVbo(vbo) ==
    /\ vbo \in vbos
    /\ IF current_vbo_id # vbo
       THEN /\ current_vbo_id' = vbo
            /\ gl_array_buffer' = vbo
       ELSE UNCHANGED <<current_vbo_id, gl_array_buffer>>
    /\ last_call' = <<"bind_vbo", vbo>>
    /\ UNCHANGED <<current_vao_id, current_shader_program_id, vaos, vbos, programs,
                   gl_vertex_array, gl_program, but_context>>

\* Drop for Vbo: glDeleteBuffers
DropVbo(vbo) ==
    /\ vbo \in vbos
    /\ vbos' = vbos \ {vbo}
    /\ gl_array_buffer' = Deleted(gl_array_buffer, vbo)
    /\ last_call' = <<"drop", vbo>>
    /\ UNCHANGED <<current_vao_id, current_vbo_id, current_shader_program_id,
                   vaos, programs, gl_vertex_array, gl_program, but_context>>

\* ShaderProgram::new: a program with a name of its own
NewProgram(id) ==
    /\ id \in Unused(programs)
    /\ programs' = programs \cup {id}
    /\ last_call' = <<"new_program", id>>
    /\ UNCHANGED <<current_vao_id, current_vbo_id, current_shader_program_id,
                   vaos, vbos, gl_vertex_array, gl_array_buffer, gl_program,
                   but_context>>

\* Context::enable_shader: shader_program.enable() is glUseProgram
EnableShader(program) ==
    /\ program \in programs
    /\ IF current_shader_program_id # program
       THEN /\ current_shader_program_id' = program
            /\ gl_program' = program
       ELSE UNCHANGED <<current_shader_program_id, gl_program>>
    /\ last_call' = <<"enable_shader", program>>
    /\ UNCHANGED <<current_vao_id, current_vbo_id, vaos, vbos, programs,
                   gl_vertex_array, gl_array_buffer, but_context>>

NextContext ==
    \/ \E id \in GlNames : NewVao(id)
    \/ \E vao \in GlNames : BindVao(vao)
    \/ \E vao \in GlNames : DropVao(vao)
    \/ \E id \in GlNames : NewVbo(id)
    \/ \E vbo \in GlNames : BindVbo(vbo)
    \/ \E vbo \in GlNames : DropVbo(vbo)
    \/ \E id \in GlNames : NewProgram(id)
    \/ \E program \in GlNames : EnableShader(program)

\* a Context whose objects are made, bound and dropped in any order
SpecContext == TextIdle /\ [][NextContext]_vars

-----------------------------------------------------------------------------
(* Framebuffer (src/src/framebuffer.rs), and GL: a framebuffer is bound for
   drawing, for reading or for both, glFramebufferTexture2D(GL_FRAMEBUFFER)
   attaches to the framebuffer bound for drawing and is an error while that
   is the default framebuffer *)

FramebufferTargets == {"Read", "Draw", "Both"}

\* FramebufferTarget::to_gl
ToGl(target) ==
    CASE target = "Read" -> "GL_READ_FRAMEBUFFER"
      [] target = "Draw" -> "GL_DRAW_FRAMEBUFFER"
      [] target = "Both" -> "GL_FRAMEBUFFER"

\* glBindFramebuffer(target, id): the framebuffers bound after it
BindFramebuffer(target, id, draw, read) ==
    [draw |-> IF target \in {"GL_DRAW_FRAMEBUFFER", "GL_FRAMEBUFFER"} THEN id ELSE draw,
     read |-> IF target \in {"GL_READ_FRAMEBUFFER", "GL_FRAMEBUFFER"} THEN id ELSE read]

\* glFramebufferTexture2D(GL_FRAMEBUFFER, GL_COLOR_ATTACHMENT0, .., texture, 0)
FramebufferTexture2D(attached, draw, texture) ==
    IF draw = 0 THEN attached ELSE [attached EXCEPT ![draw] = texture]

\* everything but the Framebuffers
but_framebuffer == <<text_vars, entries_vars, animation_vars, viewport_vars,
                     pixels_vars, context_vars, renderer_vars>>

\* Framebuffer::new
NewFramebuffer(id, target) ==
    /\ id \in Unused(DOMAIN framebuffers)
    /\ framebuffers' = [k \in DOMAIN framebuffers \cup {id} |->
                            IF k = id THEN target ELSE framebuffers[k]]
    /\ fb_call' = <<"new", id>>
    /\ UNCHANGED <<attachments, gl_draw_framebuffer, gl_read_framebuffer,
                   gl_texture_2d, but_framebuffer>>

\* Framebuffer::bind
Bind(fb) ==
    /\ fb \in DOMAIN framebuffers
    /\ LET bound == BindFramebuffer(ToGl(framebuffers[fb]), fb,
                                    gl_draw_framebuffer, gl_read_framebuffer)
       IN  /\ gl_draw_framebuffer' = bound.draw
           /\ gl_read_framebuffer' = bound.read
    /\ fb_call' = <<"bind", fb>>
    /\ UNCHANGED <<framebuffers, attachments, gl_texture_2d, but_framebuffer>>

\* Framebuffer::bind_target
BindTarget(fb, target) ==
    /\ fb \in DOMAIN framebuffers
    /\ framebuffers' = [framebuffers EXCEPT ![fb] = target]
    /\ LET bound == BindFramebuffer(ToGl(target), fb,
                                    gl_draw_framebuffer, gl_read_framebuffer)
       IN  /\ gl_draw_framebuffer' = bound.draw
           /\ gl_read_framebuffer' = bound.read
    /\ fb_call' = <<"bind", fb>>
    /\ UNCHANGED <<attachments, gl_texture_2d, but_framebuffer>>

\* Framebuffer::unbind
Unbind(fb) ==
    /\ fb \in DOMAIN framebuffers
    /\ gl_draw_framebuffer' = 0
    /\ gl_read_framebuffer' = 0
    /\ fb_call' = <<"unbind", fb>>
    /\ UNCHANGED <<framebuffers, attachments, gl_texture_2d, but_framebuffer>>

\* Framebuffer::attach_texture: self.bind(), texture.bind(),
\* glFramebufferTexture2D, self.unbind()
AttachTexture(fb, texture) ==
    /\ fb \in DOMAIN framebuffers
    /\ LET bound == BindFramebuffer(ToGl(framebuffers[fb]), fb,
                                    gl_draw_framebuffer, gl_read_framebuffer)
       IN  attachments' = FramebufferTexture2D(attachments, bound.draw, texture)
    /\ gl_texture_2d' = texture
    /\ gl_draw_framebuffer' = 0
    /\ gl_read_framebuffer' = 0
    /\ fb_call' = <<"attach_texture", fb, texture>>
    /\ UNCHANGED <<framebuffers, but_framebuffer>>

\* Drop for Framebuffer: glDeleteFramebuffers
DropFramebuffer(fb) ==
    /\ fb \in DOMAIN framebuffers
    /\ framebuffers' = [k \in DOMAIN framebuffers \ {fb} |-> framebuffers[k]]
    /\ attachments' = [attachments EXCEPT ![fb] = 0]
    /\ gl_draw_framebuffer' = Deleted(gl_draw_framebuffer, fb)
    /\ gl_read_framebuffer' = Deleted(gl_read_framebuffer, fb)
    /\ fb_call' = <<"drop", fb>>
    /\ UNCHANGED <<gl_texture_2d, but_framebuffer>>

NextFramebuffer ==
    \/ \E id \in GlNames, target \in FramebufferTargets : NewFramebuffer(id, target)
    \/ \E fb \in GlNames : Bind(fb)
    \/ \E fb \in GlNames, target \in FramebufferTargets : BindTarget(fb, target)
    \/ \E fb \in GlNames : Unbind(fb)
    \/ \E fb \in GlNames, texture \in GlNames : AttachTexture(fb, texture)
    \/ \E fb \in GlNames : DropFramebuffer(fb)

\* Framebuffers made, bound, attached to and dropped in any order
SpecFramebuffer == TextIdle /\ [][NextFramebuffer]_vars

-----------------------------------------------------------------------------
(* SimpleRenderer (src/nightmare/src/render2d.rs): its shader program and
   the location of the view-projection uniform in it; GL writes a uniform
   of the program in use *)

ProgramNames == 1..MaxPrograms

\* glGetUniformLocation: -1 when the program has no such uniform
NoLocation == 0 - 1

\* the view-projection matrices
Matrices == {"vp1", "vp2"}

\* Context::bind_vao, bind_vbo, enable_shader: the id tracked and the object
\* bound after it
Tracked(current, bound, id) ==
    IF current # id THEN [current |-> id, bound |-> id]
                    ELSE [current |-> current, bound |-> bound]

\* ShaderProgram::get_uniform_location("vp")
GetUniformLocation(program) ==
    IF vp_locations[program] = NoLocation THEN <<>> ELSE <<vp_locations[program]>>

\* ShaderProgram::new: one more program, with its location of `vp`
WithProgram(id, loc) ==
    [k \in DOMAIN vp_locations \cup {id} |-> IF k = id THEN loc ELSE vp_locations[k]]

\* everything but the SimpleRenderer and the Context
but_renderer == <<text_vars, entries_vars, animation_vars, viewport_vars,
                  pixels_vars, framebuffer_vars>>

\* SimpleRenderer::new, with the built-in shaders (that have `vp`):
\* enable_shader, Render2d::new (new_vbo, load_data), new_vbo, new_vao,
\* describe twice, set_view_projection
NewRenderer(id, loc, quad_vbo, vbo, vao, vp) ==
    /\ loc \in 0..MaxLocation
    /\ renderer = <<>>
    /\ ~renderer_panicked
    /\ id \in ProgramNames \ programs
    /\ quad_vbo \in Unused(vbos)
    /\ vbo \in Unused(vbos \cup {quad_vbo})
    /\ vao \in Unused(vaos)
    /\ programs' = programs \cup {id}
    /\ vp_locations' = WithProgram(id, loc)
    /\ LET enabled == Tracked(current_shader_program_id, gl_program, id)
           quad == Tracked(current_vbo_id, gl_array_buffer, quad_vbo)
           second == Tracked(quad.current, quad.bound, vbo)
           array == Tracked(current_vao_id, gl_vertex_array, vao)
           described == Tracked(second.current, second.bound, quad_vbo)
           again == Tracked(described.current, described.bound, vbo)
       IN  /\ current_shader_program_id' = enabled.current
           /\ gl_program' = enabled.bound
           /\ vbos' = vbos \cup {quad_vbo, vbo}
           /\ vaos' = vaos \cup {vao}
           /\ current_vao_id' = array.current
           /\ gl_vertex_array' = array.bound
           /\ current_vbo_id' = again.current
           /\ gl_array_buffer' = again.bound
           /\ renderer' = [shader_program |-> id, vp_loc |-> loc,
                           quad_vbo |-> quad_vbo, vbo |-> vbo, vao |-> vao]
           /\ uniform_written' = <<enabled.bound, loc, vp>>
    /\ renderer_call' = <<"new", id, vp>>
    /\ last_call' = <<"enable_shader", id>>
    /\ UNCHANGED <<renderer_panicked, but_renderer>>

\* SimpleRenderer::set_view_projection: set_uniform(Uniform::Matrix(vp),
\* self.vp_loc): enable_shader, set_uniform_matrix
SetViewProjection(vp) ==
    /\ renderer # <<>>
    /\ ~renderer_panicked
    /\ LET enabled == Tracked(current_shader_program_id, gl_program,
                              renderer.shader_program)
       IN  /\ current_shader_program_id' = enabled.current
           /\ gl_program' = enabled.bound
           /\ uniform_written' = <<enabled.bound, renderer.vp_loc, vp>>
    /\ renderer_call' = <<"set_view_projection", renderer.shader_program, vp>>
    /\ last_call' = <<"enable_shader", renderer.shader_program>>
    /\ UNCHANGED <<renderer, vp_locations, renderer_panicked, current_vao_id,
                   current_vbo_id, vaos, vbos, programs, gl_vertex_array,
                   gl_array_buffer, but_renderer>>

\* SimpleRenderer::set_shader, with a new ShaderProgram whose `vp` is at loc
\* (NoLocation: it has none): enable_shader(&shader), the location of `vp`
\* in self.inner.shader_program (unwrap), self.vp_loc, the shader replaced,
\* set_view_projection
SetShader(shader, loc, vp) ==
    /\ renderer # <<>>
    /\ ~renderer_panicked
    /\ shader \in ProgramNames \ programs
    /\ programs' = programs \cup {shader}
    /\ vp_locations' = WithProgram(shader, loc)
    /\ LET enabled == Tracked(current_shader_program_id, gl_program, shader)
           vp_loc == GetUniformLocation(renderer.shader_program)
           again == Tracked(enabled.current, enabled.bound, shader)
       IN  IF vp_loc = <<>>
           THEN /\ renderer_panicked' = TRUE
                /\ current_shader_program_id' = enabled.current
                /\ gl_program' = enabled.bound
                /\ UNCHANGED <<renderer, uniform_written>>
           ELSE /\ renderer' = [renderer EXCEPT !.vp_loc = vp_loc[1],
                                                !.shader_program = shader]
                /\ current_shader_program_id' = again.current
                /\ gl_program' = again.bound
                /\ uniform_written' = <<again.bound, vp_loc[1], vp>>
                /\ UNCHANGED renderer_panicked
    /\ renderer_call' = <<"set_shader", shader, vp>>
    /\ last_call' = <<"enable_shader", shader>>
    /\ UNCHANGED <<current_vao_id, current_vbo_id, vaos, vbos, gl_vertex_array,
                   gl_array_buffer, but_renderer>>

\* SimpleRenderer::render_instanced: enable_shader, bind_vao, bind_vbo,
\* Render2d::render_instanced (enable_shader, the draw call)
RenderInstanced ==
    /\ renderer # <<>>
    /\ ~renderer_panicked
    /\ LET enabled == Tracked(current_shader_program_id, gl_program,
                              renderer.shader_program)
           array == Tracked(current_vao_id, gl_vertex_array, renderer.vao)
           buffer == Tracked(current_vbo_id, gl_array_buffer, renderer.vbo)
       IN  /\ current_shader_program_id' = enabled.current
           /\ gl_program' = enabled.bound
           /\ current_vao_id' = array.current
           /\ gl_vertex_array' = array.bound
           /\ current_vbo_id' = buffer.current
           /\ gl_array_buffer' = buffer.bound
    /\ renderer_call' = <<"render_instanced", renderer.shader_program>>
    /\ last_call' = <<"enable_shader", renderer.shader_program>>
    /\ UNCHANGED <<renderer, vp_locations, uniform_written, renderer_panicked,
                   vaos, vbos, programs, but_renderer>>

NextRenderer ==
    \/ \E id \in ProgramNames, loc \in 0..MaxLocation, quad_vbo \in GlNames,
          vbo \in GlNames, vao \in GlNames, vp \in Matrices :
           NewRenderer(id, loc, quad_vbo, vbo, vao, vp)
    \/ \E vp \in Matrices : SetViewProjection(vp)
    \/ \E shader \in ProgramNames, loc \in 0..MaxLocation \cup {NoLocation},
          vp \in Matrices : SetShader(shader, loc, vp)
    \/ RenderInstanced

\* a SimpleRenderer that is made, given new shaders and matrices, and drawn
SpecRenderer == TextIdle /\ [][NextRenderer]_vars

-----------------------------------------------------------------------------
(* What the claims are stated with *)

NotControl(c) == ~IsControl(c)

\* the places in the output of the glyphs of segment k
GlyphsOf(k) == {i \in DOMAIN glyphs : glyphs[i].word = k}

\* the glyphs of the output that have a bounding box, in order
Visible == SelectSeq(glyphs, LAMBDA g : HasBoundingBox(g.id))

RECURSIVE WordRight(_, _, _, _)
WordRight(w, i, prev, x) ==
    IF i > Len(w) THEN 0
    ELSE IF IsControl(w[i]) THEN WordRight(w, i + 1, prev, x)
    ELSE LET x1 == IF prev # None THEN x + PairKerning(prev, w[i]) ELSE x
             r == IF HasBoundingBox(w[i])
                  THEN x1 + Font.bounding_box[w[i]].maxx ELSE 0
             rest == WordRight(w, i + 1, w[i], x1 + Font.advance_width[w[i]])
         IN IF r > rest THEN r ELSE rest

\* the right edge of a segment standing alone at column 0
OwnWidth(w) == WordRight(w, 1, None, 0)

RECURSIVE AdvanceSum(_, _)
\* advance widths of s from place i on, with the kerning of each pair
AdvanceSum(s, i) ==
    IF i > Len(s) THEN 0
    ELSE Font.advance_width[s[i]]
         + (IF i > 1 THEN PairKerning(s[i - 1], s[i]) ELSE 0)
         + AdvanceSum(s, i + 1)

Newlines(t) == Cardinality({i \in DOMAIN t : t[i] = "\n"})

\* where the quad of a glyph belongs before the position of the text is added
Offset(g) ==
    [x |-> g.x + Font.bounding_box[g.id].minx,
     y |-> -(g.y + Font.bounding_box[g.id].maxy)]

-----------------------------------------------------------------------------
(* The claims *)

\* C1: under word wrap no character of a segment is dropped: when the pass is
\* over every segment has a glyph for each of its characters, also a segment
\* that did not fit on its retry.
C1_NoCharacterDropped ==
    pc = "idle" =>
        \A k \in DOMAIN words :
            Cardinality(GlyphsOf(k)) = Len(SelectSeq(words[k], NotControl))

\* C2: after a pass the caret y is advance_height times the number of newline
\* characters plus the number of segments that overflowed the wrap width (one
\* line for each, also when the segment did not fit on its retry).
C2_OneLinePerNewlineAndWrap ==
    pc = "idle" =>
        caret.y = Font.advance_height * (Newlines(text) + Cardinality(overflowed))

\* C3: when the retry of a segment starts the caret is at column 0 and
\* previous_glyph_id is None.
C3_RetryStartsClean ==
    (pc = "layout" /\ attempt = 2 /\ ci = 1) =>
        (caret.x = 0 /\ previous_glyph_id = None)

\* C4: under Normal(w) no glyph of the output has a bounding box whose right
\* edge is beyond w, unless its segment alone is wider than w.
C4_RightEdgeWithinWidth ==
    wrap.kind = "Normal" =>
        \A i \in DOMAIN glyphs :
            HasBoundingBox(glyphs[i].id) =>
                \/ PixelBoundingBox(glyphs[i])[1].maxx <= wrap.width
                \/ OwnWidth(words[glyphs[i].word]) > wrap.width

\* a segment that was wrapped stands in the output, on a later line
C4_Wrapped ==
    /\ pc = "idle"
    /\ wrap.kind = "Normal"
    /\ \E i \in DOMAIN glyphs :
          /\ glyphs[i].word \in overflowed
          /\ HasBoundingBox(glyphs[i].id)
          /\ glyphs[i].y > 0

\* C5: all glyphs of a segment are on one line, and a segment is in the output
\* with all of its characters or with none: a wrap leaves no part of it behind.
C5_WordAtomicity ==
    /\ \A i, j \in DOMAIN glyphs :
          glyphs[i].word = glyphs[j].word => glyphs[i].y = glyphs[j].y
    /\ \A k \in DOMAIN words :
          Cardinality(GlyphsOf(k)) \in {0, Len(SelectSeq(words[k], NotControl))}

\* "ab ab" under Normal(16): the first word on line 1, the second, whole, on
\* line 2
C5_SecondWordOnNextLine ==
    /\ pc = "idle"
    /\ text \in Scenarios
    /\ overflowed = {3}
    /\ \A i \in GlyphsOf(1) : glyphs[i].y = 0
    /\ Cardinality(GlyphsOf(3)) = 2
    /\ \A i \in GlyphsOf(3) : glyphs[i].y = Font.advance_height

\* C6: under NoWrap the caret x after the pass over a text without newline is
\* the sum of the advance widths of its characters plus the kerning of each
\* pair of consecutive ones.
C6_NoWrapCaretX ==
    (pc = "idle" /\ wrap = NoWrap /\ Newlines(text) = 0) =>
        caret.x = AdvanceSum(SelectSeq(text, LAMBDA c : c # "\r"), 1)

\* "ab": 8 + 8 - 1
C6_AbIsFifteen ==
    /\ pc = "idle"
    /\ wrap = NoWrap
    /\ text = <<"a", "b">>
    /\ caret.x = 15

\* C7: the glyphs of the output are in the order of their characters in the
\* text, and a later one is on the same line or further down.
C7_InputOrder ==
    \A i, j \in DOMAIN glyphs :
        i < j => (glyphs[i].idx < glyphs[j].idx /\ glyphs[i].y <= glyphs[j].y)

\* an output of several lines
C7_TwoLines ==
    /\ pc = "idle"
    /\ \E i, j \in DOMAIN glyphs : glyphs[i].y < glyphs[j].y
    /\ \E i, j \in DOMAIN glyphs : i # j /\ glyphs[i].y = glyphs[j].y

\* C8: set_text starts from caret (0, 0) and no previous glyph, and laying out
\* the text that was laid out last (no call of position in between) leaves the
\* caret and the quads it left the first time, whatever was laid out before.
C8_SetTextIdempotent ==
    /\ (pc = "layout" /\ wi = 1 /\ ci = 1 /\ attempt = 1) =>
          (caret = [x |-> 0, y |-> 0] /\ previous_glyph_id = None)
    /\ (pc = "idle" /\ moves = 0 /\ prior.same) =>
          (prior.caret = caret /\ prior.sprites = sprites)

\* the same text laid out twice, after another text put a glyph in the texture
\* that this text does not have
C8_SameTextTwice ==
    /\ pc = "idle"
    /\ moves = 0
    /\ prior.same
    /\ Len(sprites) >= 1
    /\ caret.x > 0
    /\ \E id \in Cached(atlas) : \A i \in DOMAIN glyphs : glyphs[i].id # id

\* C9: a glyph without bounding box moves the caret by the kerning and its
\* advance width and becomes the previous glyph, within the attempt and on the
\* line it is met in (no wrap); it is never in the texture and the pass leaves
\* one quad for each glyph with a bounding box, none for the others.
C9_GlyphWithoutBoundingBox ==
    [][/\ (InWord /\ ~IsControl(CurChar) /\ ~HasBoundingBox(CurChar)) =>
             /\ caret'.x = (IF previous_glyph_id # None
                            THEN caret.x + PairKerning(previous_glyph_id, CurChar)
                            ELSE caret.x) + Font.advance_width[CurChar]
             /\ caret'.y = caret.y
             /\ previous_glyph_id' = CurChar
             /\ attempt' = attempt
             /\ wi' = wi
             /\ overflowed' = overflowed
             /\ Len(local') = Len(local) + 1
       /\ \A id \in Cached(atlas') : HasBoundingBox(id)
       /\ pc' = "idle" => Len(sprites') = Len(Visible')
      ]_vars

\* "ab ab" under Normal(16): two words on two lines, four quads, and the space
\* between them is a glyph of the output
C9_SpaceBetweenWords ==
    /\ pc = "idle"
    /\ text \in Scenarios
    /\ wrap = Normal(MaxWidth)
    /\ \E i \in DOMAIN glyphs : glyphs[i].id = " "
    /\ Len(glyphs) = 5
    /\ Len(sprites) = 4
    /\ caret.y > 0

\* C10: between two passes every quad is translated by where layout put its
\* glyph plus the position set last.
C10_TranslationIsOffsetPlusPosition ==
    pc = "idle" =>
        /\ Len(sprites) = Len(Visible)
        /\ \A i \in DOMAIN sprites :
              sprites[i].translation =
                  [x |-> Offset(Visible[i]).x + position.x,
                   y |-> Offset(Visible[i]).y + position.y]

\* the bitmap of the glyph is larger than the texture of the cache
TooLarge(id) ==
    \/ Font.bounding_box[id].maxx - Font.bounding_box[id].minx > CacheSize
    \/ Font.bounding_box[id].maxy - Font.bounding_box[id].miny > CacheSize

\* set_text returned an error
Failed == pc = "idle" /\ result \notin {"Ok", None}

\* C11: set_text returns an error only when one of the glyphs it queued has a
\* bitmap larger than the texture of the cache: glyphs that do not fit in the
\* texture together are no error.
C11_ErrorOnlyForGlyphTooLarge ==
    Failed => \E i \in DOMAIN glyphs :
                  HasBoundingBox(glyphs[i].id) /\ TooLarge(glyphs[i].id)

\* the quads are the ones of the glyphs set_text positioned last
QuadsOfText ==
    /\ Len(sprites) = Len(Visible)
    /\ \A i \in DOMAIN sprites :
          sprites[i].translation =
              [x |-> Offset(Visible[i]).x + position.x,
               y |-> Offset(Visible[i]).y + position.y]

\* C12: when set_text returns an error the caret and the quads are both as
\* they were before the call, or both those of the layout of the new text:
\* never the caret of the new text with the quads of the text before.
C12_NoPartialLayout ==
    Failed => \/ caret = before.caret /\ sprites = before.sprites
              \/ QuadsOfText

\* C13: when the font file cannot be read or its bytes are no font, from_path
\* returns an error after reading once, there is no Text (no method of it ever
\* runs, nothing of it is set), and the error is the Io error of the read or
\* FailedToLoadFont.
C13_FontLoadFails ==
    load.file \in {"unreadable", "not a font"} =>
        /\ pc = "failed"
        /\ result = (IF load.file = "unreadable" THEN "Io" ELSE "FailedToLoadFont")
        /\ load.reads = 1
        /\ font_size = 0
        /\ text = <<>> /\ sprites = <<>> /\ atlas = <<>>

\* from_path was called with a file that is no font
C13_NotAFont ==
    /\ pc = "failed"
    /\ load.file = "not a font"
    /\ result = "FailedToLoadFont"

\* the pixels of the texture the glyph stands in, its padding left out
AtlasRect(g) ==
    LET r == atlas[RowOf(atlas, Key(g))]
    IN [x |-> OffsetIn(r, Key(g)) + 1, y |-> r.top + 1,
        w |-> Font.bounding_box[g.id].maxx - Font.bounding_box[g.id].minx,
        h |-> Font.bounding_box[g.id].maxy - Font.bounding_box[g.id].miny]

\* set_text returned Ok and position was not called since
LaidOut == pc = "idle" /\ result = "Ok" /\ moves = 0

C15_OneSlotPerGlyph ==
    pc = "idle" => \A id \in DOMAIN Font.bounding_box : Slots(atlas, id) <= 1

\* how many rectangles of the texture hold the key
KeySlots(rows, key) ==
    LET n[k \in 0..Len(rows)] ==
            IF k = 0 THEN 0
            ELSE n[k - 1] + Len(SelectSeq(rows[k].glyphs, LAMBDA x : x = key))
    IN n[Len(rows)]

\* C15 (amended): the texture holds at most one rectangle for a glyph id and
\* sub-pixel offset, however often and in however many passes the glyph is
\* queued at that offset.
C15_OneSlotPerKey ==
    \A key \in CachedKeys(atlas) : KeySlots(atlas, key) = 1

\* "aa" in whole pixels, laid out after another text: 'a' queued twice in
\* this pass and resident from the pass before, in one rectangle
C15_QueuedTwice ==
    /\ LaidOut
    /\ load.file = "font"
    /\ text = <<"a", "a">>
    /\ before.sprites # <<>>
    /\ Slots(atlas, "a") = 1

\* C17: the flush of a pass evicts no glyph that the pass queued: a glyph of
\* the layout that is in the texture when the flush starts is in it when the
\* flush is over (eviction takes the least recently used glyphs, never those
\* of the current pass).
C17_NoEvictionOfQueuedGlyph ==
    [][(pc = "layout" /\ pc' = "idle") =>
          \A i \in DOMAIN glyphs :
              (HasBoundingBox(glyphs[i].id) /\ Key(glyphs[i]) \in CachedKeys(atlas))
                  => Key(glyphs[i]) \in CachedKeys(atlas')
      ]_vars

\* C18: entries never move: every index that push returned and that was not
\* removed since yields the value pushed there, whatever was pushed or
\* removed elsewhere, and no two pushes hold the same slot.
C18_EntriesNeverMove ==
    /\ \A p \in held : EntriesIndex(Entries, p[1]) = p[2]
    /\ Cardinality(held) = Cardinality({i \in DOMAIN inner : inner[i].tag = "Occupied"})

\* "hello" at 0 was removed and index 1 is still held for "world" (the doc
\* test of Entries), and the slot 0 has been pushed to again
C18_HeldAcrossRemoveAndPush ==
    /\ ~panicked
    /\ held = {<<0, "world">>, <<1, "world">>, <<2, "hello">>}
    /\ next = <<>>

C20_LoopsOnlyWithRepeat ==
    [][(made /\ current_frame = max_frame - 1) =>
          IF calls' = calls + 1 /\ repeat
          THEN current_frame' = 0 /\ origin' = [x |-> 0, y |-> 0]
          ELSE UNCHANGED <<current_frame, origin>>
      ]_vars

\* next() found the animation at its last frame without repeat, repeat was
\* set afterwards, and the animation has gone to frame 0
C20_WrappedAfterStop ==
    /\ made /\ stalled /\ repeat
    /\ max_frame > 1
    /\ current_frame = 0
    /\ origin = [x |-> 0, y |-> 0]

\* the glyph at place i of the text is the first one after a newline: only
\* control characters stand between a newline and it
AfterNewline(i) ==
    \E j \in 1..(i - 1) :
        /\ text[j] = "\n"
        /\ \A k \in (j + 1)..(i - 1) : IsControl(text[k])

\* C27: the first glyph positioned after an explicit newline is placed at pen
\* x = 0 of the new line: no kerning against the last glyph of the line
\* before is added to the caret.
C27_NoKerningAcrossNewline ==
    \A i \in DOMAIN local :
        AfterNewline(local[i].idx) => local[i].x = 0

\* the sub viewport of the doc example of Viewport::relative: the paddings
\* (5, 5) and (10, 10)
DocPaddings(rel) ==
    /\ rel.padding_bottom_left = [x |-> 5, y |-> 5]
    /\ rel.padding_top_right = [x |-> 10, y |-> 10]

\* C21: the doc example of Viewport::relative: of a parent at (10, 10) of size
\* 100 x 100, relative((5, 5), (10, 10)) is at (10 + 5, 10 + 5) and has the
\* size (100 - 20, 100 - 20); when the parent has been resized to 50 x 50,
\* sub.resize(&parent) makes the size (50 - 10, 50 - 10).
C21_RelativeAsDocumented ==
    [][/\ (/\ relative = <<>> /\ relative' # <<>>
           /\ viewport[1].position = [x |-> 10, y |-> 10]
           /\ viewport[1].size = [width |-> 100, height |-> 100]
           /\ DocPaddings(relative'[1]))
          => /\ relative'[1].inner.position = [x |-> 15, y |-> 15]
             /\ relative'[1].inner.size = [width |-> 80, height |-> 80]
       /\ (/\ relative # <<>> /\ viewport' = viewport /\ viewport # <<>>
           /\ relative' # relative
           /\ viewport[1].size = [width |-> 50, height |-> 50]
           /\ DocPaddings(relative[1]))
          => relative'[1].inner.size = [width |-> 40, height |-> 40]
      ]_vars

\* the region at pos of the given size lies inside a buffer
Inside(buf, rw, pos, size) ==
    /\ pos.x + size.width <= rw
    /\ pos.y + size.height <= Chunks(buf, rw)

\* C22: Pixels::region(row_width, position, size) of a region that lies
\* inside the buffer returns exactly size.height rows, row i being the pixels
\* at the columns position.x .. position.x + size.width of the buffer's row
\* position.y + i.
C22_RegionRows ==
    (region # <<>> /\ Inside(from_pixels, row_width, region[1].position, region[1].size)) =>
        LET r == region[1]
        IN /\ Len(r.inner) = r.size.height
           /\ \A i \in 0..(r.size.height - 1) :
                  /\ Len(r.inner[i + 1]) = r.size.width
                  /\ \A j \in 0..(r.size.width - 1) :
                         r.inner[i + 1][j + 1] =
                             PixelAt(from_pixels, row_width,
                                     r.position.y + i, r.position.x + j)

\* a region of two pixels of the second row of a buffer three pixels wide
C22_TwoPixelsOfSecondRow ==
    /\ pixels_out = "ok"
    /\ row_width = 3
    /\ region # <<>>
    /\ region[1].position = [x |-> 1, y |-> 1]
    /\ region[1].size = [width |-> 2, height |-> 1]
    /\ region[1].inner = << <<5, 6>> >>

\* the destination after a write: row i of the region at row position.y + i,
\* columns position.x .. position.x + row length, every other pixel as before
Copied ==
    LET w == wrote[1]
        rows == region[1].inner
    IN \A r \in 0..(Chunks(to_pixels, row_width) - 1), c \in 0..(row_width - 1) :
           PixelAt(to_pixels, row_width, r, c) =
               IF /\ r >= w.position.y /\ r < w.position.y + Len(rows)
                  /\ c >= w.position.x
                  /\ c < w.position.x + Len(rows[r - w.position.y + 1])
               THEN rows[r - w.position.y + 1][c - w.position.x + 1]
               ELSE PixelAt(w.before, row_width, r, c)

\* the destination is the source on the rectangle of the region
SameOnRegion ==
    LET r == region[1]
    IN \A i \in 0..(Len(r.inner) - 1), j \in 0..(r.size.width - 1) :
           PixelAt(to_pixels, row_width, r.position.y + i, r.position.x + j) =
               PixelAt(from_pixels, row_width, r.position.y + i, r.position.x + j)

\* C23 as stated: write_region(row_width, position, region), of any region at
\* any position, copies row i of the region to row position.y + i, columns
\* position.x .. position.x + row length, of the destination and leaves
\* every other pixel of it unchanged.
C23_WriteCopiesRows ==
    (wrote # <<>> /\ pixels_out = "ok") => Copied

\* C23: write_region(row_width, position, region) of a region whose rows end
\* inside the destination's rows (position.x + row length <= row_width)
\* copies row i of the region to row position.y + i, columns position.x ..
\* position.x + row length, and leaves every other pixel unchanged; so the
\* region read from a source buffer, written at the position it was read
\* from, makes the destination equal to the source on that rectangle.
C23_WriteInsideCopiesRows ==
    (/\ wrote # <<>> /\ pixels_out = "ok"
     /\ wrote[1].position.x + region[1].size.width <= row_width) =>
        /\ Copied
        /\ wrote[1].position = region[1].position => SameOnRegion

\* a region of two rows was read at (1, 0) and written at (0, 0)
C23_WrittenElsewhere ==
    /\ wrote # <<>> /\ pixels_out = "ok"
    /\ row_width = 3
    /\ region[1].position = [x |-> 1, y |-> 0]
    /\ region[1].size = [width |-> 2, height |-> 2]
    /\ wrote[1].position = [x |-> 0, y |-> 0]
    /\ to_pixels = <<2, 3, 103, 5, 6, 106>>

\* C24: when bind_vao(v), bind_vbo(b) or enable_shader(p) has returned, that
\* object is the one bound in GL and the id the Context tracks is the GL
\* binding, whatever objects were made, bound and dropped before (a call is
\* skipped only when the object really is bound).
C24_BoundAfterBind ==
    /\ (last_call # <<>> /\ last_call[1] = "bind_vao") =>
           (gl_vertex_array = last_call[2] /\ current_vao_id = gl_vertex_array)
    /\ (last_call # <<>> /\ last_call[1] = "bind_vbo") =>
           (gl_array_buffer = last_call[2] /\ current_vbo_id = gl_array_buffer)
    /\ (last_call # <<>> /\ last_call[1] = "enable_shader") =>
           (gl_program = last_call[2] /\ current_shader_program_id = gl_program)

\* C25: when attach_texture(t) of a framebuffer has returned, t is colour
\* attachment 0 of that framebuffer and the default framebuffer (0) is bound,
\* whatever the target of the framebuffer is (Read, Draw or Both).
C25_AttachedToThisFramebuffer ==
    (fb_call # <<>> /\ fb_call[1] = "attach_texture") =>
        /\ attachments[fb_call[2]] = fb_call[3]
        /\ gl_draw_framebuffer = 0
        /\ gl_read_framebuffer = 0

\* C26: when set_shader(shader, vp, ctx) has returned (the shader has the
\* uniform `vp`), the stored location is the location of `vp` in the new
\* shader, the new shader is the enabled program, and vp was written to that
\* location of the new shader.
C26_ConsistentWithNewShader ==
    (/\ renderer_call # <<>>
     /\ renderer_call[1] = "set_shader"
     /\ ~renderer_panicked
     /\ vp_locations[renderer_call[2]] # NoLocation) =>
        /\ renderer.shader_program = renderer_call[2]
        /\ renderer.vp_loc = vp_locations[renderer_call[2]]
        /\ gl_program = renderer_call[2]
        /\ current_shader_program_id = renderer_call[2]
        /\ uniform_written = <<renderer_call[2], vp_locations[renderer_call[2]],
                               renderer_call[3]>>

====
